---------------------------- MODULE Spec2Model ----------------------------
(***************************************************************************)
(* A state-machine model of the WhatsApp plugin for Astreus:               *)
(*   - WhatsAppClient  (src/src/client.ts)                                 *)
(*   - WhatsAppPlugin  (src/unnamed/part_001)                              *)
(*                                                                         *)
(* JavaScript values are modelled as tagged records [t, v]: t is the       *)
(* typeof-like tag and v the text of the value as a sequence of chunks     *)
(* (a chunk is a character for phone numbers, a whole token elsewhere).    *)
(* Template-literal interpolation is concatenation of chunk sequences.     *)
(***************************************************************************)
EXTENDS Integers, Sequences, FiniteSets, TLC

VARIABLES
    env,            \* process.env, as read by the constructors
    whatsAppConfig, \* WhatsAppPlugin.whatsAppConfig
    client,         \* WhatsAppPlugin.client (live = FALSE models null)
    tools,          \* WhatsAppPlugin.tools : Map<string, Plugin>, in insertion order
    configTools,    \* WhatsAppPlugin.config.tools
    builds,         \* number of times initializeTools() has built the catalog closures
    call,           \* the tool execution in progress (its position and captured data)
    reqs,           \* HTTP requests issued by the current/last tool execution
    last,           \* outcome of the most recently completed operation
    now,            \* Date.now()
    initialized     \* history: an init() has succeeded and no cleanupAll() has run since

vars ==
    <<env, whatsAppConfig, client, tools, configTools, builds, call, reqs, last, now,
      initialized>>

----------------------------------------------------------------------------
(* Bounds of the model *)

\* initializeTools() runs at most this many times (constructor + init calls)
MaxBuilds == 3
\* the clock advances at most this many half-seconds
MaxTicks == 5

----------------------------------------------------------------------------
(* JavaScript values *)

Undefined == [t |-> "undefined", v |-> <<>>]
Null == [t |-> "null", v |-> <<>>]
Str(s) == [t |-> "string", v |-> s]
Num(s) == [t |-> "number", v |-> s]
Bool(b) == [t |-> "boolean", v |-> IF b THEN <<"true">> ELSE <<"false">>]
Obj(id) == [t |-> "object", v |-> <<id>>]

NaN == Num(<<"NaN">>)
Num0 == Num(<<"0">>)
EmptyStr == Str(<<>>)

\* ECMAScript ToBoolean, negated: the operand of `!x`, `x || y`, `if (x)`
Falsy(x) ==
    \/ x.t \in {"undefined", "null"}
    \/ x.t = "string" /\ x.v = <<>>
    \/ x.t = "number" /\ x.v \in {<<"0">>, <<"NaN">>}
    \/ x.t = "boolean" /\ x.v = <<"false">>

\* a || b
Or(a, b) == IF Falsy(a) THEN b ELSE a

\* `${x}` : ECMAScript ToString
ToStr(x) ==
    CASE x.t = "undefined" -> <<"undefined">>
      [] x.t = "null" -> <<"null">>
      [] x.t = "object" -> <<"[object Object]">>
      [] OTHER -> x.v

\* the integer a numeric text denotes (the numerals the model uses)
NumeralValue(s) ==
    CASE s = <<"0">> -> 0
      [] s = <<"1">> -> 1
      [] s = <<"2">> -> 2
      [] s = <<"300">> -> 300
      [] s = <<"3600">> -> 3600
      [] s = <<"30000">> -> 30000
      [] OTHER -> -1

\* Number(x) for a string or a number operand
ToNumber(x) ==
    CASE x.t = "number" -> x
      [] x.t = "string" /\ x.v = <<>> -> Num0
      [] x.t = "string" /\ NumeralValue(x.v) >= 0 -> Num(x.v)
      [] OTHER -> NaN

\* whether chunk sequence sub occurs contiguously in chunk sequence s
Contains(s, sub) ==
    \E i \in 1..(Len(s) + 1) :
        /\ i + Len(sub) - 1 <= Len(s)
        /\ SubSeq(s, i, i + Len(sub) - 1) = sub

StartsWith(s, pre) == Len(pre) <= Len(s) /\ SubSeq(s, 1, Len(pre)) = pre

----------------------------------------------------------------------------
(* Errors *)

NoResponse ==
    [present |-> FALSE, status |-> <<>>, hasData |-> FALSE, hasError |-> FALSE,
     error |-> [code |-> Undefined, message |-> Undefined, error_subcode |-> Undefined,
                error_user_title |-> Undefined, error_user_msg |-> Undefined]]

\* new Error(message)
NewError(msg) == [cls |-> "Error", message |-> msg, response |-> NoResponse]

\* `${error}` for an Error object: name + ": " + message
ErrorToString(e) == <<e.cls, ": ">> \o e.message

NoError == [cls |-> "none", message |-> <<>>, response |-> NoResponse]

----------------------------------------------------------------------------
(* Configuration *)

ConfigFields == {"apiToken", "phoneNumberId", "cacheContactSeconds"}

\* WhatsAppPlugin.constructor: config || { ...process.env }
PluginConfigOf(given, config, e) ==
    IF given THEN config
    ELSE [apiToken |-> e.WHATSAPP_API_TOKEN,
          phoneNumberId |-> e.WHATSAPP_PHONE_NUMBER_ID,
          cacheContactSeconds |-> Undefined]

\* WhatsAppClient.constructor: the resolved this.config
ResolveConfig(config, e) ==
    [apiToken |-> Or(config.apiToken, e.WHATSAPP_API_TOKEN),
     phoneNumberId |-> Or(config.phoneNumberId, e.WHATSAPP_PHONE_NUMBER_ID),
     cacheContactSeconds |->
        Or(config.cacheContactSeconds,
           ToNumber(Or(e.CACHE_CONTACT_SECONDS, Str(<<"3600">>))))]

\* WhatsAppClient.constructor: the validation error, NoError when construction succeeds
ConstructError(resolved) ==
    IF Falsy(resolved.apiToken) THEN NewError(<<"WhatsApp API token is required">>)
    ELSE IF Falsy(resolved.phoneNumberId)
         THEN NewError(<<"WhatsApp phone number ID is required">>)
         ELSE NoError

\* WhatsAppClient.isConfigured
IsConfigured(cfg) == ~Falsy(cfg.apiToken) /\ ~Falsy(cfg.phoneNumberId)

EmptyMap == [k \in {} |-> 0]

EmptyConfig ==
    [apiToken |-> Undefined, phoneNumberId |-> Undefined, cacheContactSeconds |-> Undefined]

\* this.client = null
NullClient == [live |-> FALSE, gen |-> 0, config |-> EmptyConfig, contactCache |-> EmptyMap]

\* new WhatsAppClient(config): a fresh client with empty caches
NewClient(resolved, g) ==
    [live |-> TRUE, gen |-> g, config |-> resolved, contactCache |-> EmptyMap]


----------------------------------------------------------------------------
(* Tool catalog *)

W(suffix) == <<"whatsapp_", suffix>>

\* getChatManifests(): name, properties (declaration order) and required list
Manifests ==
    << [name |-> W("send_message"),
        properties |-> <<"to", "message">>,
        required |-> <<"to", "message">>],
       [name |-> W("send_template"),
        properties |-> <<"to", "templateName", "language", "components">>,
        required |-> <<"to", "templateName", "language">>],
       [name |-> W("send_media"),
        properties |-> <<"to", "type", "url", "filePath", "caption", "filename">>,
        required |-> <<"to", "type">>],
       [name |-> W("send_interactive"),
        properties |-> <<"to", "type", "body", "header", "footer", "action">>,
        required |-> <<"to", "type", "body", "action">>],
       [name |-> W("send_location"),
        properties |-> <<"to", "latitude", "longitude", "name", "address">>,
        required |-> <<"to", "latitude", "longitude">>],
       [name |-> W("mark_as_read"),
        properties |-> <<"messageId">>,
        required |-> <<"messageId">>],
       [name |-> W("get_contact_info"),
        properties |-> <<"phoneNumber">>,
        required |-> <<"phoneNumber">>],
       [name |-> W("get_business_profile"),
        properties |-> <<>>,
        required |-> <<>>],
       [name |-> W("update_business_profile"),
        properties |-> <<"about", "address", "description", "email", "websites", "vertical">>,
        required |-> <<>>] >>

Range(s) == {s[i] : i \in DOMAIN s}

CatalogNames == {Manifests[i].name : i \in DOMAIN Manifests}

ManifestOf(name) == CHOOSE m \in Range(Manifests) : m.name = name

SendTools ==
    {W("send_message"), W("send_template"), W("send_media"),
     W("send_interactive"), W("send_location")}

----------------------------------------------------------------------------
(* Map<string, Plugin> with insertion order *)

MapHas(m, name) == \E i \in DOMAIN m : m[i].name = name

MapIndex(m, name) == CHOOSE i \in DOMAIN m : m[i].name = name

\* Map.prototype.set: an existing key keeps its position
MapSet(m, tool) ==
    IF MapHas(m, tool.name)
    THEN [m EXCEPT ![MapIndex(m, tool.name)] = tool]
    ELSE Append(m, tool)

\* Map.prototype.delete
MapDelete(m, name) == SelectSeq(m, LAMBDA t : t.name # name)

\* Array.from(this.tools.values())
MapValues(m) == m

\* a Plugin object built by initializeTools() in its g-th run
CatalogTool(name, g) == [name |-> name, kind |-> "catalog", gen |-> g]

RECURSIVE SetAll(_, _, _, _)
\* the for-loop of initializeTools over manifests i..Len(Manifests)
SetAll(m, ms, i, g) ==
    IF i > Len(ms) THEN m
    ELSE SetAll(MapSet(m, CatalogTool(ms[i].name, g)), ms, i + 1, g)

\* initializeTools(): the tool map after the loop
InitializeToolsMap(m, g) == SetAll(m, Manifests, 1, g)


----------------------------------------------------------------------------
(* WhatsAppClient: requests, responses, error handling *)

Digits == {"0", "1", "2", "3", "4", "5", "6", "7", "8", "9"}

IsDigit(c) == c \in Digits

\* formatPhoneNumber: the argument and the result are character sequences
formatPhoneNumber(phoneNumber) ==
    IF Len(phoneNumber) > 0 /\ phoneNumber[1] = "+"
    THEN SubSeq(phoneNumber, 2, Len(phoneNumber))
    ELSE SelectSeq(phoneNumber, IsDigit)

\* String.prototype.toLowerCase on the media types the model uses
ToLowerCase(s) ==
    [i \in DOMAIN s |->
        CASE s[i] = "Document" -> "document"
          [] s[i] = "IMAGE" -> "image"
          [] OTHER -> s[i]]

NoMedia == [id |-> Undefined, link |-> Undefined, caption |-> Undefined, filename |-> Undefined]

\* a successful axios response: response.data and the fields the client reads
Response(dataNull, hasMessages, messages, id, hasList, list) ==
    [dataNull |-> dataNull, hasMessages |-> hasMessages, messages |-> messages,
     id |-> id, hasList |-> hasList, list |-> list]

EmptyResponse == Response(FALSE, FALSE, <<>>, Undefined, FALSE, <<>>)

\* an HTTP request handed to the axios instance; outcome, response and error are
\* filled in when the request settles
Request(verb, path, to, type, media) ==
    [verb |-> verb, path |-> path, to |-> to, type |-> type, media |-> media,
     outcome |-> "pending", response |-> EmptyResponse, error |-> NoError]

\* variant: every failure is wrapped in a newly composed error
handleApiErrorWrapsAll(message, error) ==
    NewError(message \o <<": ">> \o error.message)

\* handleApiError(message, error): the error it throws
handleApiError(message, error) ==
    IF error.cls = "AxiosError" /\ error.response.present
    THEN LET r == error.response
             e == r.error
             base == message \o <<": HTTP ">> \o r.status
             withBody ==
                 IF r.hasData /\ r.hasError
                 THEN base \o <<" - ">> \o (IF Falsy(e.code) THEN <<>> ELSE ToStr(e.code))
                           \o <<": ">>
                           \o (IF Falsy(e.message) THEN <<>> ELSE ToStr(e.message))
                 ELSE base
             withSub ==
                 IF r.hasData /\ r.hasError /\ ~Falsy(e.error_subcode)
                 THEN withBody \o <<" (subcode: ">> \o ToStr(e.error_subcode) \o <<")">>
                 ELSE withBody
             withUser ==
                 IF r.hasData /\ r.hasError
                    /\ (~Falsy(e.error_user_title) \/ ~Falsy(e.error_user_msg))
                 THEN withSub \o <<" - ">>
                          \o (IF Falsy(e.error_user_title) THEN <<>>
                              ELSE ToStr(e.error_user_title))
                          \o <<": ">>
                          \o (IF Falsy(e.error_user_msg) THEN <<>>
                              ELSE ToStr(e.error_user_msg))
                 ELSE withSub
         IN NewError(withUser)
    ELSE error

\* the catch-block message prefix of each client method
ErrorPrefix(method) ==
    CASE method = "send_message" -> <<"Error sending message">>
      [] method = "send_template" -> <<"Error sending template message">>
      [] method = "send_media" -> <<"Error sending media message">>
      [] method = "send_interactive" -> <<"Error sending interactive message">>
      [] method = "send_location" -> <<"Error sending location message">>
      [] method = "mark_as_read" -> <<"Error marking message as read">>
      [] method = "get_business_profile" -> <<"Error getting business profile">>
      [] method = "update_business_profile" -> <<"Error updating business profile">>
      [] OTHER -> <<"Error">>

\* variant: the id of the last message of the list
MessageIdOfLast(resp) ==
    IF ~resp.dataNull /\ resp.hasMessages /\ Len(resp.messages) > 0
    THEN resp.messages[Len(resp.messages)].id
    ELSE EmptyStr

\* response.data && response.data.messages && response.data.messages.length > 0
\*   ? response.data.messages[0].id : ''
MessageIdOf(resp) ==
    IF ~resp.dataNull /\ resp.hasMessages /\ Len(resp.messages) > 0
    THEN resp.messages[1].id
    ELSE EmptyStr


----------------------------------------------------------------------------
(* Results and step outcomes *)

NoResult ==
    [kind |-> "none", success |-> Undefined, messageId |-> Undefined,
     id |-> <<>>, data |-> Undefined]

\* { success: true, messageId }
SendResult(messageId) ==
    [kind |-> "send", success |-> Bool(TRUE), messageId |-> messageId,
     id |-> <<>>, data |-> Undefined]

\* { success }
FlagResult(success) ==
    [kind |-> "flag", success |-> success, messageId |-> Undefined,
     id |-> <<>>, data |-> Undefined]

\* WhatsAppContact { id, name: undefined, isBusiness: undefined, profilePictureUrl: undefined }
ContactResult(id) ==
    [kind |-> "contact", success |-> Undefined, messageId |-> Undefined,
     id |-> id, data |-> Undefined]

\* the raw business profile record
ProfileResult(data) ==
    [kind |-> "profile", success |-> Undefined, messageId |-> Undefined,
     id |-> <<>>, data |-> data]

NoRequest == Request("none", "none", <<>>, <<>>, NoMedia)

\* What a handler does up to its next suspension point: it throws, returns, or
\* awaits an HTTP request (pc names the continuation); cl is the client afterwards.
Throw(error, cl) ==
    [status |-> "throw", error |-> error, result |-> NoResult, req |-> NoRequest,
     pc |-> "idle", cl |-> cl]

Return(result, cl) ==
    [status |-> "return", error |-> NoError, result |-> result, req |-> NoRequest,
     pc |-> "idle", cl |-> cl]

Await(req, pc, cl) ==
    [status |-> "await", error |-> NoError, result |-> NoResult, req |-> req,
     pc |-> pc, cl |-> cl]

\* params.<k> : undefined when the property is absent
P(params, k) == IF k \in DOMAIN params THEN params[k] ELSE Undefined

----------------------------------------------------------------------------
(* WhatsAppClient.getContactInfo and the contact cache *)

MsPerSecond == 1000

\* `contact_${formattedNumber}`
CacheKey(formattedNumber) == <<"contact_">> \o formattedNumber

\* Number * 1000, NaN staying NaN (-1 stands for NaN: every comparison with it is false)
TtlMillis(seconds) ==
    IF seconds.t = "number" /\ NumeralValue(seconds.v) >= 0
    THEN NumeralValue(seconds.v) * MsPerSecond
    ELSE -1

\* variant: the TTL is compared in seconds, without the conversion to milliseconds
CacheHitSeconds(cache, key, t, seconds) ==
    /\ key \in DOMAIN cache
    /\ TtlMillis(seconds) >= 0
    /\ t - cache[key].timestamp < NumeralValue(seconds.v)

\* variant: an entry whose age equals the TTL is still fresh
CacheHitInclusive(cache, key, t, seconds) ==
    /\ key \in DOMAIN cache
    /\ TtlMillis(seconds) >= 0
    /\ t - cache[key].timestamp <= TtlMillis(seconds)

\* cachedContact && Date.now() - cachedContact.timestamp < cacheContactSeconds * 1000
CacheHit(cache, key, t, seconds) ==
    /\ key \in DOMAIN cache
    /\ TtlMillis(seconds) >= 0
    /\ t - cache[key].timestamp < TtlMillis(seconds)

\* variant: a miss drops every other entry before it stores the new one
ClientGetContactInfoEvicting(cl, phoneNumber, t) ==
    LET formattedNumber == formatPhoneNumber(phoneNumber)
        cacheKey == CacheKey(formattedNumber)
    IN IF CacheHit(cl.contactCache, cacheKey, t, cl.config.cacheContactSeconds)
       THEN Return(ContactResult(cl.contactCache[cacheKey].data), cl)
       ELSE Return(ContactResult(formattedNumber),
                   [cl EXCEPT !.contactCache =
                       [k \in {cacheKey} |->
                           [data |-> formattedNumber, timestamp |-> t]]])

\* WhatsAppClient.getContactInfo: the returned contact and the client afterwards
ClientGetContactInfo(cl, phoneNumber, t) ==
    LET formattedNumber == formatPhoneNumber(phoneNumber)
        cacheKey == CacheKey(formattedNumber)
    IN IF CacheHit(cl.contactCache, cacheKey, t, cl.config.cacheContactSeconds)
       THEN Return(ContactResult(cl.contactCache[cacheKey].data), cl)
       ELSE Return(ContactResult(formattedNumber),
                   [cl EXCEPT !.contactCache =
                       [k \in DOMAIN cl.contactCache \cup {cacheKey} |->
                           IF k = cacheKey
                           THEN [data |-> formattedNumber, timestamp |-> t]
                           ELSE cl.contactCache[k]]])


----------------------------------------------------------------------------
(* WhatsAppClient methods: from the call to the first await *)

\* the text of a string-valued option
Text(x) == IF x.t = "string" THEN x.v ELSE ToStr(x)

\* variant: the payload is posted even when it has neither an id nor a link
SendMediaPayloadUnchecked(options, mediaId, cl) ==
    LET mediaType == ToLowerCase(Text(P(options, "type")))
        media ==
            IF ~Falsy(mediaId) THEN [NoMedia EXCEPT !.id = mediaId]
            ELSE [NoMedia EXCEPT !.link = P(options, "url")]
    IN Await(Request("POST", "messages",
                     formatPhoneNumber(Text(P(options, "to"))), mediaType, media),
             "send", cl)

\* variant: a URL is embedded whenever one is given, uploaded id or not
SendMediaPayloadPrefersLink(options, mediaId, cl) ==
    LET mediaType == ToLowerCase(Text(P(options, "type")))
        base ==
            IF ~Falsy(P(options, "url")) THEN [NoMedia EXCEPT !.link = P(options, "url")]
            ELSE [NoMedia EXCEPT !.id = mediaId]
        withCaption ==
            IF ~Falsy(P(options, "caption"))
            THEN [base EXCEPT !.caption = P(options, "caption")]
            ELSE base
        media ==
            IF mediaType = <<"document">> /\ ~Falsy(P(options, "filename"))
            THEN [withCaption EXCEPT !.filename = P(options, "filename")]
            ELSE withCaption
    IN IF Falsy(mediaId) /\ Falsy(P(options, "url"))
       THEN Throw(handleApiError(ErrorPrefix("send_media"),
                      NewError(<<"Either filePath or url must be provided">>)), cl)
       ELSE Await(Request("POST", "messages",
                          formatPhoneNumber(Text(P(options, "to"))), mediaType, media),
                  "send", cl)

\* sendMedia after the optional upload: builds the payload and posts it
SendMediaPayload(options, mediaId, cl) ==
    LET mediaType == ToLowerCase(Text(P(options, "type")))
        base ==
            IF ~Falsy(mediaId) THEN [NoMedia EXCEPT !.id = mediaId]
            ELSE [NoMedia EXCEPT !.link = P(options, "url")]
        withCaption ==
            IF ~Falsy(P(options, "caption"))
            THEN [base EXCEPT !.caption = P(options, "caption")]
            ELSE base
        media ==
            IF mediaType = <<"document">> /\ ~Falsy(P(options, "filename"))
            THEN [withCaption EXCEPT !.filename = P(options, "filename")]
            ELSE withCaption
    IN IF Falsy(mediaId) /\ Falsy(P(options, "url"))
       THEN Throw(handleApiError(ErrorPrefix("send_media"),
                      NewError(<<"Either filePath or url must be provided">>)), cl)
       ELSE Await(Request("POST", "messages",
                          formatPhoneNumber(Text(P(options, "to"))), mediaType, media),
                  "send", cl)

\* WhatsAppClient.sendMedia, up to its first await
ClientSendMedia(options, cl, fileExists) ==
    IF ~Falsy(P(options, "filePath"))
    THEN IF fileExists
         THEN Await(Request("POST", "media", <<>>, <<>>, NoMedia), "upload", cl)
         ELSE Throw(handleApiError(ErrorPrefix("send_media"),
                        NewError(<<"File not found: ">> \o Text(P(options, "filePath")))), cl)
    ELSE SendMediaPayload(options, Undefined, cl)

\* the client method each handler delegates to, up to its first await
ClientCall(method, params, cl, fileExists, t) ==
    CASE method = "send_message" ->
            Await(Request("POST", "messages", formatPhoneNumber(Text(P(params, "to"))),
                          <<"text">>, NoMedia), "send", cl)
      [] method = "send_template" ->
            Await(Request("POST", "messages", formatPhoneNumber(Text(P(params, "to"))),
                          <<"template">>, NoMedia), "send", cl)
      [] method = "send_media" -> ClientSendMedia(params, cl, fileExists)
      [] method = "send_interactive" ->
            Await(Request("POST", "messages", formatPhoneNumber(Text(P(params, "to"))),
                          <<"interactive">>, NoMedia), "send", cl)
      [] method = "send_location" ->
            Await(Request("POST", "messages", formatPhoneNumber(Text(P(params, "to"))),
                          <<"location">>, NoMedia), "send", cl)
      [] method = "mark_as_read" ->
            Await(Request("POST", "messages", <<>>, <<"read">>, NoMedia), "send", cl)
      [] method = "get_contact_info" ->
            ClientGetContactInfo(cl, Text(P(params, "phoneNumber")), t)
      [] method = "get_business_profile" ->
            Await(Request("GET", "whatsapp_business_profile", <<>>, <<>>, NoMedia), "send", cl)
      [] method = "update_business_profile" ->
            Await(Request("PATCH", "whatsapp_business_profile", <<>>, <<>>, NoMedia),
                  "send", cl)
      [] OTHER -> Throw(NewError(<<"Unknown method">>), cl)

----------------------------------------------------------------------------
(* WhatsAppPlugin implementation methods: validation *)

MissingMessage(method) ==
    CASE method = "send_message" ->
            <<"Missing required parameters: ", "to", ", ", "message">>
      [] method = "send_template" ->
            <<"Missing required parameters: ", "to", ", ", "templateName", ", ", "language">>
      [] method = "send_media" ->
            <<"Missing required parameters: ", "to", ", ", "type", ", (", "url", " or ",
              "filePath", ")">>
      [] method = "send_interactive" ->
            <<"Missing required parameters: ", "to", ", ", "type", ", ", "body", ", ",
              "action">>
      [] method = "send_location" ->
            <<"Missing required parameters: ", "to", ", ", "latitude", ", ", "longitude">>
      [] method = "mark_as_read" -> <<"Missing required parameter: ", "messageId">>
      [] method = "get_contact_info" -> <<"Missing required parameter: ", "phoneNumber">>
      [] OTHER -> <<>>

\* variant: every handler validates the recipient only
RejectsRecipientOnly(method, params) ==
    /\ method \in {"send_message", "send_template", "send_media", "send_interactive",
                   "send_location"}
    /\ Falsy(P(params, "to"))

\* variant: only an absent parameter is rejected, a falsy value is accepted
RejectsOnlyAbsent(method, params) ==
    LET absent(k) == P(params, k) = Undefined
    IN CASE method = "send_message" -> absent("to") \/ absent("message")
         [] method = "send_template" ->
               absent("to") \/ absent("templateName") \/ absent("language")
         [] method = "send_media" ->
               absent("to") \/ absent("type") \/ (absent("url") /\ absent("filePath"))
         [] method = "send_interactive" ->
               absent("to") \/ absent("type") \/ absent("body") \/ absent("action")
         [] method = "send_location" ->
               absent("to") \/ absent("latitude") \/ absent("longitude")
         [] method = "mark_as_read" -> absent("messageId")
         [] method = "get_contact_info" -> absent("phoneNumber")
         [] OTHER -> FALSE

\* the condition of the handler's `if (...) throw new Error('Missing required ...')`
Rejects(method, params) ==
    CASE method = "send_message" ->
            Falsy(P(params, "to")) \/ Falsy(P(params, "message"))
      [] method = "send_template" ->
            \/ Falsy(P(params, "to"))
            \/ Falsy(P(params, "templateName"))
            \/ Falsy(P(params, "language"))
      [] method = "send_media" ->
            \/ Falsy(P(params, "to"))
            \/ Falsy(P(params, "type"))
            \/ (Falsy(P(params, "url")) /\ Falsy(P(params, "filePath")))
      [] method = "send_interactive" ->
            \/ Falsy(P(params, "to"))
            \/ Falsy(P(params, "type"))
            \/ Falsy(P(params, "body"))
            \/ Falsy(P(params, "action"))
      [] method = "send_location" ->
            \/ Falsy(P(params, "to"))
            \/ P(params, "latitude") = Undefined
            \/ P(params, "longitude") = Undefined
      [] method = "mark_as_read" -> Falsy(P(params, "messageId"))
      [] method = "get_contact_info" -> Falsy(P(params, "phoneNumber"))
      [] OTHER -> FALSE

\* a plugin implementation method (sendMessage ... updateBusinessProfile), to its first await
Handler(method, params, cl, fileExists, t) ==
    IF Rejects(method, params)
    THEN Throw(NewError(MissingMessage(method)), cl)
    ELSE ClientCall(method, params, cl, fileExists, t)


----------------------------------------------------------------------------
(* WhatsAppPlugin: the execute closure of a catalog tool *)

RECURSIVE RemoveFirst(_, _)
\* String.prototype.replace(pattern, ''): the first occurrence of the chunk is removed
RemoveFirst(s, chunk) ==
    IF s = <<>> THEN <<>>
    ELSE IF Head(s) = chunk THEN Tail(s)
         ELSE <<Head(s)>> \o RemoveFirst(Tail(s), chunk)

\* variant: the switch has no case for update_business_profile
SwitchCasesWithoutProfileUpdate ==
    {"send_message", "send_template", "send_media", "send_interactive", "send_location",
     "mark_as_read", "get_contact_info", "get_business_profile"}

\* the labels of the dispatch switch
SwitchCases ==
    {"send_message", "send_template", "send_media", "send_interactive", "send_location",
     "mark_as_read", "get_contact_info", "get_business_profile", "update_business_profile"}

NotInitialized == NewError(<<"WhatsApp client not initialized. Call init() first.">>)

\* variant: the closure without its `if (!this.client)` guard
ExecuteClosureUnguarded(name, params, cl, fileExists, t) ==
    LET methodName == RemoveFirst(name, "whatsapp_")
    IN IF Len(methodName) = 1 /\ methodName[1] \in SwitchCases
       THEN Handler(methodName[1], params, cl, fileExists, t)
       ELSE Throw(NewError(<<"Unknown method: ">> \o methodName), cl)

\* plugin.execute(params) of the tool built from the manifest called name
ExecuteClosure(name, params, cl, fileExists, t) ==
    IF ~cl.live THEN Throw(NotInitialized, cl)
    ELSE LET methodName == RemoveFirst(name, "whatsapp_")
         IN IF Len(methodName) = 1 /\ methodName[1] \in SwitchCases
            THEN Handler(methodName[1], params, cl, fileExists, t)
            ELSE Throw(NewError(<<"Unknown method: ">> \o methodName), cl)

\* variant: a failed send request is issued once more
ResumeRetrying(c, ok, resp, error) ==
    IF c.pc = "upload"
    THEN IF ok
         THEN IF ~resp.dataNull /\ ~Falsy(resp.id)
              THEN SendMediaPayload(c.params, resp.id, NullClient)
              ELSE Throw(handleApiError(ErrorPrefix("send_media"),
                           handleApiError(<<"Error uploading media">>,
                             NewError(<<"Failed to upload media: No media ID received">>))),
                         NullClient)
         ELSE Throw(handleApiError(ErrorPrefix("send_media"),
                      handleApiError(<<"Error uploading media">>, error)), NullClient)
    ELSE IF ~ok
         THEN Await(Request("POST", "messages", <<>>, <<"retry">>, NoMedia), "send",
                    NullClient)
         ELSE CASE c.method \in {"mark_as_read", "update_business_profile"} ->
                     Return(FlagResult(Bool(TRUE)), NullClient)
                [] c.method = "get_business_profile" ->
                     IF resp.dataNull \/ ~resp.hasList
                     THEN Throw(handleApiError(ErrorPrefix(c.method),
                                  [cls |-> "TypeError",
                                   message |-> <<"Cannot read properties of undefined">>,
                                   response |-> NoResponse]), NullClient)
                     ELSE IF Len(resp.list) > 0 /\ ~Falsy(resp.list[1])
                          THEN Return(ProfileResult(resp.list[1]), NullClient)
                          ELSE Return(ProfileResult(Obj("{}")), NullClient)
                [] OTHER -> Return(SendResult(MessageIdOf(resp)), NullClient)

\* variant: a failed request is swallowed and reported as { success: false }
ResumeSwallowing(c, ok, resp, error) ==
    IF c.pc = "upload"
    THEN IF ok
         THEN IF ~resp.dataNull /\ ~Falsy(resp.id)
              THEN SendMediaPayload(c.params, resp.id, NullClient)
              ELSE Throw(handleApiError(ErrorPrefix("send_media"),
                           handleApiError(<<"Error uploading media">>,
                             NewError(<<"Failed to upload media: No media ID received">>))),
                         NullClient)
         ELSE Throw(handleApiError(ErrorPrefix("send_media"),
                      handleApiError(<<"Error uploading media">>, error)), NullClient)
    ELSE IF ~ok
         THEN Return(FlagResult(Bool(FALSE)), NullClient)
         ELSE CASE c.method \in {"mark_as_read", "update_business_profile"} ->
                     Return(FlagResult(Bool(TRUE)), NullClient)
                [] c.method = "get_business_profile" ->
                     IF resp.dataNull \/ ~resp.hasList
                     THEN Throw(handleApiError(ErrorPrefix(c.method),
                                  [cls |-> "TypeError",
                                   message |-> <<"Cannot read properties of undefined">>,
                                   response |-> NoResponse]), NullClient)
                     ELSE IF Len(resp.list) > 0 /\ ~Falsy(resp.list[1])
                          THEN Return(ProfileResult(resp.list[1]), NullClient)
                          ELSE Return(ProfileResult(Obj("{}")), NullClient)
                [] OTHER -> Return(SendResult(MessageIdOf(resp)), NullClient)

\* the client method resumed by the outcome of the request it awaited
Resume(c, ok, resp, error) ==
    IF c.pc = "upload"
    THEN IF ok
         THEN IF ~resp.dataNull /\ ~Falsy(resp.id)
              THEN SendMediaPayload(c.params, resp.id, NullClient)
              ELSE Throw(handleApiError(ErrorPrefix("send_media"),
                           handleApiError(<<"Error uploading media">>,
                             NewError(<<"Failed to upload media: No media ID received">>))),
                         NullClient)
         ELSE Throw(handleApiError(ErrorPrefix("send_media"),
                      handleApiError(<<"Error uploading media">>, error)), NullClient)
    ELSE IF ~ok
         THEN Throw(handleApiError(ErrorPrefix(c.method), error), NullClient)
         ELSE CASE c.method \in {"mark_as_read", "update_business_profile"} ->
                     Return(FlagResult(Bool(TRUE)), NullClient)
                [] c.method = "get_business_profile" ->
                     IF resp.dataNull \/ ~resp.hasList
                     THEN Throw(handleApiError(ErrorPrefix(c.method),
                                  [cls |-> "TypeError",
                                   message |-> <<"Cannot read properties of undefined">>,
                                   response |-> NoResponse]), NullClient)
                     ELSE IF Len(resp.list) > 0 /\ ~Falsy(resp.list[1])
                          THEN Return(ProfileResult(resp.list[1]), NullClient)
                          ELSE Return(ProfileResult(Obj("{}")), NullClient)
                [] OTHER -> Return(SendResult(MessageIdOf(resp)), NullClient)


----------------------------------------------------------------------------
(* Inputs *)

Token == Str(<<"EAAG-token">>)
PhoneId == Str(<<"1055">>)

Env(token, phoneNumberId, seconds) ==
    [WHATSAPP_API_TOKEN |-> token, WHATSAPP_PHONE_NUMBER_ID |-> phoneNumberId,
     CACHE_CONTACT_SECONDS |-> seconds]

\* process.env holds strings or nothing
EnvInputs ==
    {Env(t, p, Undefined) : t \in {Undefined, EmptyStr, Token}, p \in {Undefined, PhoneId}}

Config(token, phoneNumberId, seconds) ==
    [apiToken |-> token, phoneNumberId |-> phoneNumberId, cacheContactSeconds |-> seconds]

ConfigInputs ==
    {Config(t, p, Undefined) : t \in {Undefined, Token}, p \in {Undefined, EmptyStr, PhoneId}}

\* a sample argument for each manifest property
Sample(property) ==
    CASE property \in {"to", "phoneNumber"} -> Str(<<"+", "1", "5", "5">>)
      [] property = "type" -> Str(<<"Document">>)
      [] property \in {"latitude", "longitude"} -> Num(<<"1">>)
      [] property \in {"body", "header", "footer", "action", "components", "websites"} ->
            Obj(property)
      [] OTHER -> Str(<<property>>)

\* every property of the manifest supplied
FullParams(name) == [p \in Range(ManifestOf(name).properties) |-> Sample(p)]

\* params with property k omitted
Omit(params, k) == [p \in DOMAIN params \ {k} |-> params[p]]

\* the required list of a manifest, as a set
RequiredOf(name) == Range(ManifestOf(name).required)

\* values a caller may supply that JavaScript treats as false
FalsyInputs == {EmptyStr, Num0, Bool(FALSE), Null}

\* the arguments the execution specification executes tools with
ExecInputs(name) ==
    IF name \notin CatalogNames THEN {EmptyMap}
    ELSE {FullParams(name)}
         \cup {Omit(FullParams(name), k) : k \in RequiredOf(name)}
         \cup (IF name = W("send_media")
               THEN {Omit(FullParams(name), "filePath"),
                     Omit(FullParams(name), "url"),
                     Omit(Omit(FullParams(name), "filePath"), "url"),
                     [FullParams(name) EXCEPT !["type"] = Str(<<"IMAGE">>)],
                     [Omit(FullParams(name), "filePath") EXCEPT
                         !["type"] = Str(<<"IMAGE">>)]}
               ELSE {})
         \cup {[FullParams(name) EXCEPT ![k] = v] :
                  k \in RequiredOf(name), v \in FalsyInputs}

CustomName == <<"custom_echo">>

\* Plugin objects a caller registers: a new name, and a catalog name
CustomTools ==
    {[name |-> CustomName, kind |-> "custom", gen |-> 0],
     [name |-> W("send_message"), kind |-> "custom", gen |-> 0]}

\* names a caller removes or executes by
NameInputs == CatalogNames \cup {CustomName, W("unknown")}

RemoveInputs == {W("send_message"), W("mark_as_read"), CustomName, W("unknown")}

Msg(id) == [id |-> Str(<<id>>)]

\* the successful vendor responses to a request
SuccessInputs(req) ==
    CASE req.path = "messages" ->
            {Response(TRUE, FALSE, <<>>, Undefined, FALSE, <<>>),
             EmptyResponse,
             Response(FALSE, TRUE, <<>>, Undefined, FALSE, <<>>),
             Response(FALSE, TRUE, <<Msg("wamid.A")>>, Undefined, FALSE, <<>>),
             Response(FALSE, TRUE, <<Msg("wamid.A"), Msg("wamid.B")>>, Undefined, FALSE, <<>>)}
      [] req.path = "media" ->
            {EmptyResponse, Response(FALSE, FALSE, <<>>, Str(<<"media-1">>), FALSE, <<>>)}
      [] req.verb = "GET" ->
            {EmptyResponse,
             Response(FALSE, FALSE, <<>>, Undefined, TRUE, <<>>),
             Response(FALSE, FALSE, <<>>, Undefined, TRUE, <<Obj("profile")>>)}
      [] OTHER -> {EmptyResponse}

VendorError(code, message, subcode, title, msg) ==
    [code |-> code, message |-> message, error_subcode |-> subcode,
     error_user_title |-> title, error_user_msg |-> msg]

HttpResponse(status, hasData, hasError, error) ==
    [present |-> TRUE, status |-> <<status>>, hasData |-> hasData, hasError |-> hasError,
     error |-> error]

AxiosError(response) ==
    [cls |-> "AxiosError", message |-> <<"Request failed">>, response |-> response]

\* the failures of a request: no response, a response without a structured body,
\* and responses with a structured vendor error body
FailureInputs ==
    {AxiosError(NoResponse),
     AxiosError(HttpResponse("500", FALSE, FALSE, NoResponse.error)),
     AxiosError(HttpResponse("404", TRUE, FALSE, NoResponse.error)),
     AxiosError(HttpResponse("400", TRUE, TRUE,
        VendorError(Num(<<"100">>), Str(<<"Invalid parameter">>), Num(<<"33">>),
                    Str(<<"Bad request">>), Str(<<"Check the recipient">>)))),
     AxiosError(HttpResponse("429", TRUE, TRUE,
        VendorError(Num0, Str(<<"AuthException">>), Undefined, Undefined, Undefined))),
     AxiosError(HttpResponse("400", TRUE, TRUE,
        VendorError(Num(<<"130429">>), Str(<<"Rate limit hit">>), Undefined,
                    Undefined, Str(<<"Slow down">>))))}


----------------------------------------------------------------------------
(* State *)

IdleCall == [pc |-> "idle", name |-> <<>>, method |-> "", params |-> EmptyMap, gen |-> 0]

\* the outcome of an operation: what it returned or threw, which handler ran, the
\* client (gen, 0 for null) the execute closure saw, and the time of the call
Last(op, name, params, ok, error, result, handler, gen) ==
    [op |-> op, name |-> name, params |-> params, ok |-> ok, error |-> error,
     result |-> result, handler |-> handler, gen |-> gen, at |-> now]

Pending(op, name, params, gen) ==
    Last(op, name, params, FALSE, NoError, NoResult, "catalog", gen)

BoolResult(b) ==
    [kind |-> "bool", success |-> Bool(b), messageId |-> Undefined,
     id |-> <<>>, data |-> Undefined]

\* new WhatsAppPlugin(config?) : the state after construction
InitWith(configs, envs) ==
    /\ env \in envs
    /\ \E given \in BOOLEAN, config \in configs :
          whatsAppConfig = PluginConfigOf(given, config, env)
    /\ now = 0
    /\ client = NullClient
    /\ builds = 1
    /\ tools = InitializeToolsMap(<<>>, 1)
    /\ configTools = MapValues(InitializeToolsMap(<<>>, 1))
    /\ call = IdleCall
    /\ reqs = <<>>
    /\ last = Last("constructor", <<>>, EmptyMap, TRUE, NoError, NoResult, "none", 0)
    /\ initialized = FALSE

Init == InitWith(ConfigInputs, EnvInputs)

----------------------------------------------------------------------------
(* Operations *)

\* the environment changes between calls
SetEnv ==
    /\ \E e \in EnvInputs : e # env /\ env' = e
    /\ UNCHANGED <<whatsAppConfig, client, tools, configTools, builds, call, reqs, last,
                   now, initialized>>

InitPrefix == <<"WhatsApp plugin initialization failed: ">>

\* variant: the catch block rethrows the error it caught
InitFailureRethrown(error) == error

\* the catch block of init(): new Error(`WhatsApp plugin initialization failed: ${error}`)
InitFailure(error) == NewError(InitPrefix \o ErrorToString(error))

\* init(), and initializeAll() which awaits it
PluginInit(op) ==
    /\ builds < MaxBuilds
    /\ LET resolved == ResolveConfig(whatsAppConfig, env)
           err == ConstructError(resolved)
       IN IF err # NoError
          THEN /\ last' = Last(op, <<>>, EmptyMap, FALSE,
                               InitFailure(err),
                               NoResult, "none", 0)
               /\ UNCHANGED <<client, tools, configTools, builds, initialized>>
          ELSE IF ~IsConfigured(resolved)
          THEN /\ client' = NewClient(resolved, builds + 1)
               /\ last' = Last(op, <<>>, EmptyMap, FALSE,
                               InitFailure(NewError(
                                   <<"WhatsApp client is not properly configured. ",
                                     "Check your API token and phone number ID.">>)),
                               NoResult, "none", 0)
               /\ UNCHANGED <<tools, configTools, builds, initialized>>
          ELSE /\ client' = NewClient(resolved, builds + 1)
               /\ tools' = InitializeToolsMap(tools, builds + 1)
               /\ configTools' = MapValues(InitializeToolsMap(tools, builds + 1))
               /\ builds' = builds + 1
               /\ initialized' = TRUE
               /\ last' = Last(op, <<>>, EmptyMap, TRUE, NoError, NoResult, "none", 0)
    /\ UNCHANGED <<env, whatsAppConfig, call, reqs, now>>

\* cleanupAll()
CleanupAll ==
    /\ client' = NullClient
    /\ initialized' = FALSE
    /\ last' = Last("cleanupAll", <<>>, EmptyMap, TRUE, NoError, NoResult, "none", 0)
    /\ UNCHANGED <<env, whatsAppConfig, tools, configTools, builds, call, reqs, now>>

\* registerTool(tool)
RegisterTool(tool) ==
    /\ tools' = MapSet(tools, tool)
    /\ last' = Last("registerTool", tool.name, EmptyMap, TRUE, NoError, NoResult, "none", 0)
    /\ UNCHANGED <<env, whatsAppConfig, client, configTools, builds, call, reqs, now,
                   initialized>>

\* removeTool(name)
RemoveTool(name) ==
    /\ tools' = MapDelete(tools, name)
    /\ configTools' = MapValues(MapDelete(tools, name))
    /\ last' = Last("removeTool", name, EmptyMap, TRUE, NoError,
                    BoolResult(MapHas(tools, name)), "none", 0)
    /\ UNCHANGED <<env, whatsAppConfig, client, builds, call, reqs, now, initialized>>

\* the effect of running a tool's execute(params) up to its first suspension
RunTool(op, tool, params, fileExists) ==
    IF tool.kind = "custom"
    THEN /\ last' = Last(op, tool.name, params, TRUE, NoError,
                         [NoResult EXCEPT !.kind = "custom"], "custom", 0)
         /\ reqs' = <<>>
         /\ UNCHANGED <<client, call>>
    ELSE LET out == ExecuteClosure(tool.name, params, client, fileExists, now)
         IN /\ client' = out.cl
            /\ IF out.status = "await"
               THEN /\ call' = [pc |-> out.pc, name |-> tool.name,
                                method |-> RemoveFirst(tool.name, "whatsapp_")[1],
                                params |-> params, gen |-> client.gen]
                    /\ reqs' = <<out.req>>
                    /\ last' = Pending(op, tool.name, params, client.gen)
               ELSE /\ call' = IdleCall
                    /\ reqs' = <<>>
                    /\ last' = Last(op, tool.name, params, out.status = "return",
                                    out.error, out.result, "catalog", client.gen)

\* variant: the message does not interpolate the name
NotFoundUnnamed(name) == NewError(<<"Tool not found">>)

\* new Error(`Tool ${name} not found`)
NotFound(name) == NewError(<<"Tool ">> \o name \o <<" not found">>)

\* executeTool(name, params)
ExecuteTool(name, params, fileExists) ==
    /\ call.pc = "idle"
    /\ IF ~MapHas(tools, name)
       THEN /\ last' = Last("executeTool", name, params, FALSE,
                            NotFound(name),
                            NoResult, "none", 0)
            /\ reqs' = <<>>
            /\ UNCHANGED <<client, call>>
       ELSE RunTool("executeTool", tools[MapIndex(tools, name)], params, fileExists)
    /\ UNCHANGED <<env, whatsAppConfig, tools, configTools, builds, now, initialized>>

\* the host calls execute(params) on a tool of the exposed list config.tools
Execute(i, params, fileExists) ==
    /\ call.pc = "idle"
    /\ i \in DOMAIN configTools
    /\ RunTool("execute", configTools[i], params, fileExists)
    /\ UNCHANGED <<env, whatsAppConfig, tools, configTools, builds, now, initialized>>

\* variant: the suspended method finds the client gone after cleanupAll() and gives up
RespondUnlessCleanedUp(ok, resp, error) ==
    /\ call.pc # "idle"
    /\ LET out == IF client.live THEN Resume(call, ok, resp, error)
                  ELSE Throw(NotInitialized, NullClient)
           settled == [reqs EXCEPT ![Len(reqs)] =
                          [@ EXCEPT !.outcome = IF ok THEN "ok" ELSE "failed",
                                    !.response = resp, !.error = error]]
       IN IF out.status = "await"
          THEN /\ call' = [call EXCEPT !.pc = out.pc]
               /\ reqs' = Append(settled, out.req)
               /\ UNCHANGED last
          ELSE /\ call' = IdleCall
               /\ reqs' = settled
               /\ last' = Last("execute", call.name, call.params, out.status = "return",
                               out.error, out.result, "catalog", call.gen)
    /\ UNCHANGED <<env, whatsAppConfig, client, tools, configTools, builds, now,
                   initialized>>

\* the awaited request settles and the suspended method runs on
Respond(ok, resp, error) ==
    /\ call.pc # "idle"
    /\ LET out == Resume(call, ok, resp, error)
           settled == [reqs EXCEPT ![Len(reqs)] =
                          [@ EXCEPT !.outcome = IF ok THEN "ok" ELSE "failed",
                                    !.response = resp, !.error = error]]
       IN IF out.status = "await"
          THEN /\ call' = [call EXCEPT !.pc = out.pc]
               /\ reqs' = Append(settled, out.req)
               /\ UNCHANGED last
          ELSE /\ call' = IdleCall
               /\ reqs' = settled
               /\ last' = Last("execute", call.name, call.params, out.status = "return",
                               out.error, out.result, "catalog", call.gen)
    /\ UNCHANGED <<env, whatsAppConfig, client, tools, configTools, builds, now,
                   initialized>>

\* the vendor answers the awaited request
RespondOk(responses) == \E resp \in responses : Respond(TRUE, resp, NoError)

\* the awaited request fails
RespondFail(errors) == \E error \in errors : Respond(FALSE, EmptyResponse, error)

\* the response a healthy vendor gives to a request
TypicalResponse(req) ==
    CASE req.path = "messages" ->
            Response(FALSE, TRUE, <<Msg("wamid.A")>>, Undefined, FALSE, <<>>)
      [] req.path = "media" -> Response(FALSE, FALSE, <<>>, Str(<<"media-1">>), FALSE, <<>>)
      [] req.verb = "GET" -> Response(FALSE, FALSE, <<>>, Undefined, TRUE, <<Obj("profile")>>)
      [] OTHER -> EmptyResponse

----------------------------------------------------------------------------
(* Lifecycle: configuration, init, cleanup and tool execution *)

Next ==
    \/ SetEnv
    \/ \E op \in {"init", "initializeAll"} : PluginInit(op)
    \/ CleanupAll
    \/ \E name \in CatalogNames : ExecuteTool(name, FullParams(name), TRUE)
    \/ \E i \in 1..Len(configTools) :
          Execute(i, FullParams(configTools[i].name), TRUE)
    \/ call.pc # "idle" /\ RespondOk({TypicalResponse(reqs[Len(reqs)])})
    \/ call.pc # "idle" /\ RespondFail({AxiosError(NoResponse)})

Spec == Init /\ [][Next]_vars


----------------------------------------------------------------------------
(* Tool execution: every catalog tool, its arguments and the vendor's answers *)

GoodConfig == Config(Token, PhoneId, Undefined)

NoEnv == Env(Undefined, Undefined, Undefined)

InitExec == InitWith({GoodConfig}, {NoEnv})

NextExec ==
    \/ PluginInit("init")
    \/ CleanupAll
    \/ \E name \in CatalogNames, fileExists \in BOOLEAN :
          \E params \in ExecInputs(name) : ExecuteTool(name, params, fileExists)
    \/ call.pc # "idle" /\ RespondOk(SuccessInputs(reqs[Len(reqs)]))
    \/ call.pc # "idle" /\ RespondFail(FailureInputs)

SpecExec == InitExec /\ [][NextExec]_vars

----------------------------------------------------------------------------
(* Tool registry: registerTool, removeTool, lookups and execute-by-name *)

NextRegistry ==
    \/ PluginInit("init")
    \/ CleanupAll
    \/ \E tool \in CustomTools : RegisterTool(tool)
    \/ \E name \in RemoveInputs : RemoveTool(name)
    \/ \E name \in RemoveInputs :
          \E params \in {IF name \in CatalogNames THEN FullParams(name) ELSE EmptyMap} :
             ExecuteTool(name, params, TRUE)
    \/ call.pc # "idle" /\ RespondOk({TypicalResponse(reqs[Len(reqs)])})

SpecRegistry == InitExec /\ [][NextRegistry]_vars

\* getTool(name) / getToolByFullName(name): the tool, or a null tool when undefined
NoTool == [name |-> <<>>, kind |-> "undefined", gen |-> 0]

getTool(m, name) == IF MapHas(m, name) THEN m[MapIndex(m, name)] ELSE NoTool

getToolByFullName(m, fullName) == getTool(m, fullName)

hasTool(m, name) == MapHas(m, name)

getToolCount(m) == Len(m)

----------------------------------------------------------------------------
(* Contact cache: getContactInfo under a running clock *)

HalfSecond == MsPerSecond \div 2

\* time passes
Tick ==
    /\ now < MaxTicks * HalfSecond
    /\ now' = now + HalfSecond
    /\ UNCHANGED <<env, whatsAppConfig, client, tools, configTools, builds, call, reqs,
                   last, initialized>>

CacheConfigs ==
    {Config(Token, PhoneId, s) : s \in {Undefined, Num0, Num(<<"1">>)}}
        \cup {Config(Undefined, PhoneId, Undefined)}

CacheEnvs ==
    {Env(Token, PhoneId, s) : s \in {Undefined, Str(<<"0">>), Str(<<"soon">>)}}
        \cup {Env(Undefined, PhoneId, Undefined)}

\* phone numbers as typed by callers
PhoneInputs ==
    {<<"+", "1", "5", "5">>, <<"1", "5", "5">>, <<"1", " ", "5", "-", "5">>,
     <<"+", "1", " ", "5">>}

InitCache == InitWith(CacheConfigs, CacheEnvs)

NextCache ==
    \/ PluginInit("init")
    \/ Tick
    \/ \E phone \in PhoneInputs :
          ExecuteTool(W("get_contact_info"), [phoneNumber |-> Str(phone)], TRUE)

SpecCache == InitCache /\ [][NextCache]_vars


----------------------------------------------------------------------------
(* Properties *)

InitOps == {"init", "initializeAll"}

\* last is the outcome (or the pending state) of a catalog tool's execute closure
IsExec(l) == l.op \in {"executeTool", "execute"} /\ l.handler = "catalog"

\* the execution last describes has finished
Finished(l) == IsExec(l) /\ call.pc = "idle"

IsValidationError(e) ==
    /\ e.cls = "Error"
    /\ Len(e.message) > 0
    /\ e.message[1] \in {"Missing required parameters: ", "Missing required parameter: "}

----------------------------------------------------------------------------
\* C1: on an initialized plugin, executing a catalog tool with a parameter that its
\* manifest marks required omitted fails with a validation error whose message names
\* that parameter, and no HTTP request is issued.
C1_RequiredParameters ==
    (IsExec(last) /\ last.gen # 0) =>
        \A k \in RequiredOf(last.name) :
            k \notin DOMAIN last.params =>
                /\ call.pc = "idle"
                /\ ~last.ok
                /\ IsValidationError(last.error)
                /\ Contains(last.error.message, <<k>>)
                /\ reqs = <<>>

\* an initialized plugin rejected send_location called without its longitude
C1_Witness ==
    /\ IsExec(last) /\ last.gen # 0
    /\ last.name = W("send_location")
    /\ "longitude" \notin DOMAIN last.params
    /\ IsValidationError(last.error)
    /\ Contains(last.error.message, <<"longitude">>)
    /\ reqs = <<>>

----------------------------------------------------------------------------
\* C2: a catalog tool's execution reaches an API-client method only if some init()
\* has succeeded and no cleanupAll() has run since; otherwise it fails with the
\* 'not initialized' error and issues no HTTP request.
C2_InitGuard ==
    /\ client.live <=> initialized
    /\ (client.live <=> client.gen # 0)
    /\ call.pc # "idle" => call.gen # 0
    /\ IsExec(last) =>
          /\ last.gen = 0 =>
                /\ call.pc = "idle"
                /\ ~last.ok
                /\ last.error = NotInitialized
                /\ reqs = <<>>
          /\ (reqs # <<>> \/ last.ok \/ last.error # NotInitialized) => last.gen # 0

\* after an init() and a cleanupAll(), an execution failed with 'not initialized'
C2_Witness ==
    /\ IsExec(last)
    /\ builds > 1
    /\ ~initialized
    /\ last.error = NotInitialized
    /\ reqs = <<>>

----------------------------------------------------------------------------
\* C3: after an init() call fails, on an Uninitialized plugin or on a Ready one, the
\* plugin is not Ready (the client is null, so every execution fails without a request).
C3_FailedInitNotReady ==
    (last.op \in InitOps /\ ~last.ok) => ~client.live

----------------------------------------------------------------------------
\* the access token or the phone-number id is empty after resolution: the explicit
\* configuration gives none and the environment gives none
EmptyAfterResolution ==
    \/ Falsy(whatsAppConfig.apiToken) /\ Falsy(env.WHATSAPP_API_TOKEN)
    \/ Falsy(whatsAppConfig.phoneNumberId) /\ Falsy(env.WHATSAPP_PHONE_NUMBER_ID)

\* C4: init() fails with an error whose message starts with 'WhatsApp plugin
\* initialization failed: ' whenever the access token or the phone-number id is empty
\* after resolution, without issuing an HTTP request or executing a tool.
C4_InitFailsFast ==
    [][\A op \in InitOps :
          (PluginInit(op) /\ EmptyAfterResolution) =>
              /\ last'.op = op
              /\ ~last'.ok
              /\ StartsWith(last'.error.message, InitPrefix)
              /\ reqs' = reqs
              /\ call' = call]_vars

\* an init() failed for want of a phone-number id although a token was configured
C4_Witness ==
    /\ last.op \in InitOps
    /\ ~last.ok
    /\ ~Falsy(whatsAppConfig.apiToken)
    /\ EmptyAfterResolution
    /\ last.error.message =
          InitPrefix \o <<"Error", ": ", "WhatsApp phone number ID is required">>

----------------------------------------------------------------------------
\* C5: executeTool(name, params) with a name that is not in the tool map fails with
\* 'Tool <name> not found', invokes no handler and issues no HTTP request, whether or
\* not the plugin is initialized.
C5_UnknownTool ==
    [][\A name \in RemoveInputs, params \in {EmptyMap} \cup {FullParams(n) : n \in CatalogNames} :
          (ExecuteTool(name, params, TRUE) /\ ~hasTool(tools, name)) =>
              /\ ~last'.ok
              /\ last'.error.message = <<"Tool ">> \o name \o <<" not found">>
              /\ last'.handler = "none"
              /\ reqs' = <<>>
              /\ call' = call
              /\ client' = client]_vars

\* a removed catalog tool was executed by name on an initialized plugin
C5_Witness ==
    /\ last.op = "executeTool"
    /\ last.name = W("send_message")
    /\ last.error.message = <<"Tool ", "whatsapp_", "send_message", " not found">>
    /\ last.handler = "none"
    /\ client.live
    /\ ~hasTool(tools, W("send_message"))

----------------------------------------------------------------------------
\* C6: removeTool(name) for a registered name returns true, makes getTool,
\* getToolByFullName and hasTool report the tool absent, decreases getToolCount() by
\* one, and makes config.tools exactly one element shorter than before the call.
C6_RemoveShrinksExposedList ==
    [][\A name \in RemoveInputs :
          (RemoveTool(name) /\ hasTool(tools, name)) =>
              /\ last'.result.success = Bool(TRUE)
              /\ getTool(tools', name) = NoTool
              /\ getToolByFullName(tools', name) = NoTool
              /\ ~hasTool(tools', name)
              /\ getToolCount(tools') = getToolCount(tools) - 1
              /\ Len(configTools') = Len(configTools) - 1]_vars


----------------------------------------------------------------------------
(* Contact cache properties *)

\* a getContactInfo call for phone through the whatsapp_get_contact_info tool
GetContactInfoStep(phone) ==
    ExecuteTool(W("get_contact_info"), [phoneNumber |-> Str(phone)], TRUE)

\* the cache key a phone number is looked up under
KeyOf(phone) == <<"contact_">> \o formatPhoneNumber(phone)

\* the configured contact TTL in milliseconds, -1 when it is not a number
TtlOf(cl) == TtlMillis(cl.config.cacheContactSeconds)

\* last describes a successful getContactInfo call on the current client
LastWasLookup ==
    /\ IsExec(last) /\ last.ok
    /\ last.name = W("get_contact_info")
    /\ client.live /\ last.gen = client.gen

\* C7, as stated: of two getContactInfo calls for numbers that normalize to the same
\* value, the second made within the contact TTL of the first, the second returns the
\* same contact data and leaves the cache unchanged; a call after TTL expiry
\* re-synthesizes the contact and stamps the entry with the current time.
C7_WithinTtlOfPreviousCall ==
    [][\A phone \in PhoneInputs :
          (GetContactInfoStep(phone) /\ client.live /\ TtlOf(client) >= 0) =>
              /\ (/\ LastWasLookup
                  /\ last.result.id = formatPhoneNumber(phone)
                  /\ now - last.at < TtlOf(client))
                 => /\ last'.result = last.result
                    /\ client'.contactCache = client.contactCache
              /\ (/\ KeyOf(phone) \in DOMAIN client.contactCache
                  /\ now - client.contactCache[KeyOf(phone)].timestamp > TtlOf(client))
                 => /\ last'.result = ContactResult(formatPhoneNumber(phone))
                    /\ client'.contactCache[KeyOf(phone)].timestamp = now]_vars

\* C7, amended: a getContactInfo call made within the contact TTL of the call that
\* stored the entry for the same normalized number returns the stored contact and
\* leaves the cache unchanged; a call after TTL expiry re-synthesizes the contact and
\* stamps the entry with the current time.
C7_WithinTtlOfStoringCall ==
    [][\A phone \in PhoneInputs :
          (/\ GetContactInfoStep(phone) /\ client.live /\ TtlOf(client) >= 0
           /\ KeyOf(phone) \in DOMAIN client.contactCache) =>
              LET entry == client.contactCache[KeyOf(phone)]
              IN /\ now - entry.timestamp < TtlOf(client)
                    => /\ last'.ok
                       /\ last'.result = ContactResult(entry.data)
                       /\ client'.contactCache = client.contactCache
                 /\ now - entry.timestamp > TtlOf(client)
                    => /\ last'.ok
                       /\ last'.result = ContactResult(formatPhoneNumber(phone))
                       /\ client'.contactCache[KeyOf(phone)] =
                             [data |-> formatPhoneNumber(phone), timestamp |-> now]]_vars

\* a lookup of '1 5-5' half a second after the entry for 155 was stored was served
\* from the cache under a one-second TTL
C7_Witness ==
    /\ LastWasLookup
    /\ last.params = [phoneNumber |-> Str(<<"1", " ", "5", "-", "5">>)]
    /\ last.result = ContactResult(<<"1", "5", "5">>)
    /\ TtlOf(client) = MsPerSecond
    /\ KeyOf(<<"1", "5", "5">>) \in DOMAIN client.contactCache
    /\ client.contactCache[KeyOf(<<"1", "5", "5">>)].timestamp = 0
    /\ last.at = HalfSecond
    /\ now = HalfSecond

\* C8, as stated: an entry is a miss on read exactly when now - timestamp > ttl; an
\* entry whose age equals the TTL is still served as a hit.
C8_MissWhenOlderThanTtl ==
    [][\A phone \in PhoneInputs :
          (/\ GetContactInfoStep(phone) /\ client.live /\ TtlOf(client) >= 0
           /\ KeyOf(phone) \in DOMAIN client.contactCache) =>
              LET entry == client.contactCache[KeyOf(phone)]
              IN /\ now - entry.timestamp > TtlOf(client)
                    => client'.contactCache[KeyOf(phone)].timestamp = now
                 /\ now - entry.timestamp <= TtlOf(client)
                    => client'.contactCache = client.contactCache]_vars

\* C8, amended: an entry is served as a hit exactly when now - timestamp < ttl (the
\* TTL in milliseconds); an entry whose age equals the TTL is a miss, and so is every
\* entry when the TTL is not a number.
C8_HitWhenYoungerThanTtl ==
    [][\A phone \in PhoneInputs :
          (/\ GetContactInfoStep(phone) /\ client.live
           /\ KeyOf(phone) \in DOMAIN client.contactCache) =>
              LET entry == client.contactCache[KeyOf(phone)]
                  fresh == TtlOf(client) >= 0 /\ now - entry.timestamp < TtlOf(client)
              IN /\ fresh => /\ client'.contactCache = client.contactCache
                             /\ last'.result = ContactResult(entry.data)
                 /\ ~fresh => /\ client'.contactCache[KeyOf(phone)] =
                                    [data |-> formatPhoneNumber(phone), timestamp |-> now]
                              /\ last'.result = ContactResult(formatPhoneNumber(phone))]_vars

\* under a one-second TTL a lookup made at 1000 ms re-stored the entry for 155
C8_Witness ==
    /\ LastWasLookup
    /\ TtlOf(client) = MsPerSecond
    /\ last.at = MsPerSecond
    /\ last.result = ContactResult(<<"1", "5", "5">>)
    /\ client.contactCache[KeyOf(<<"1", "5", "5">>)].timestamp = MsPerSecond

----------------------------------------------------------------------------
(* Send tools and vendor errors *)

\* the request the finished execution issued last
LastRequest == reqs[Len(reqs)]

\* the first message id of a response body, '' when it carries none
FirstMessageId(resp) ==
    IF resp.dataNull \/ ~resp.hasMessages \/ resp.messages = <<>>
    THEN EmptyStr
    ELSE Head(resp.messages).id

\* C9, as stated: when every HTTP request of a send tool's execution succeeds, the
\* tool returns {success: true, messageId} with messageId the first id of the
\* response's messages list, or '' when the list is absent or empty.
C9_SendSucceedsWhenRequestsSucceed ==
    (/\ Finished(last) /\ last.name \in SendTools
     /\ reqs # <<>>
     /\ \A i \in 1..Len(reqs) : reqs[i].outcome = "ok") =>
        /\ last.ok
        /\ last.result = SendResult(FirstMessageId(LastRequest.response))

\* C9, amended: when the send request (the POST to /messages) of a send tool's
\* execution is answered successfully, the tool returns {success: true, messageId}
\* with messageId the first id of the response's messages list, or '' when the list
\* is absent or empty.
C9_SendSucceedsWhenSendAnswered ==
    (/\ Finished(last) /\ last.name \in SendTools
     /\ reqs # <<>>
     /\ LastRequest.path = "messages"
     /\ LastRequest.outcome = "ok") =>
        /\ last.ok
        /\ last.result = SendResult(FirstMessageId(LastRequest.response))

\* send_media uploaded a file, sent the message and returned the first of two ids
C9_Witness ==
    /\ Finished(last) /\ last.name = W("send_media")
    /\ Len(reqs) = 2
    /\ reqs[1].path = "media" /\ reqs[1].outcome = "ok"
    /\ reqs[2].path = "messages" /\ reqs[2].outcome = "ok"
    /\ Len(reqs[2].response.messages) = 2
    /\ last.ok
    /\ last.result = SendResult(Str(<<"wamid.A">>))

\* C10: when a request fails with an HTTP response carrying a structured vendor
\* error, the tool fails with a message containing the HTTP status, the vendor error
\* code and the vendor error message verbatim, plus the subcode and the user-facing
\* title and message when present.
C10_VendorErrorVerbatim ==
    (/\ Finished(last) /\ reqs # <<>>
     /\ LastRequest.outcome = "failed"
     /\ LastRequest.error.response.present
     /\ LastRequest.error.response.hasData
     /\ LastRequest.error.response.hasError) =>
        LET r == LastRequest.error.response
            e == r.error
            shown(field) == field # Undefined => Contains(last.error.message, ToStr(field))
        IN /\ ~last.ok
           /\ Contains(last.error.message, r.status)
           /\ shown(e.code)
           /\ shown(e.message)
           /\ shown(e.error_subcode)
           /\ shown(e.error_user_title)
           /\ shown(e.error_user_msg)

----------------------------------------------------------------------------
(* Transport errors *)

\* the finished execution's last request failed
LastRequestFailed == Finished(last) /\ reqs # <<>> /\ LastRequest.outcome = "failed"

\* the failure of the last request carries a structured vendor error body
Structured(error) ==
    error.response.present /\ error.response.hasData /\ error.response.hasError

----------------------------------------------------------------------------
(* sendMedia *)

\* neither a file path nor a URL is given
NoMediaSource(options) == Falsy(P(options, "url")) /\ Falsy(P(options, "filePath"))

\* C12: sendMedia called with neither a file path nor a URL fails with a descriptive
\* error before any HTTP request is issued, as the client method and as the
\* whatsapp_send_media tool.
C12_MediaSourceRequired ==
    /\ \A options \in ExecInputs(W("send_media")), fileExists \in BOOLEAN :
          NoMediaSource(options) =>
              LET out == ClientSendMedia(options, client, fileExists)
              IN /\ out.status = "throw"
                 /\ out.req = NoRequest
                 /\ out.error = NewError(<<"Either filePath or url must be provided">>)
    /\ (/\ IsExec(last) /\ last.gen # 0
        /\ last.name = W("send_media")
        /\ NoMediaSource(last.params)) =>
           /\ call.pc = "idle"
           /\ ~last.ok
           /\ reqs = <<>>
           /\ last.error.cls = "Error"
           /\ Contains(last.error.message, <<"url">>)
           /\ Contains(last.error.message, <<"filePath">>)

\* an initialized plugin rejected send_media given a recipient and a type only
C12_Witness ==
    /\ IsExec(last) /\ last.gen # 0
    /\ last.name = W("send_media")
    /\ DOMAIN last.params = {"to", "type", "caption", "filename"}
    /\ ~last.ok
    /\ reqs = <<>>
    /\ Contains(last.error.message, <<"filePath">>)

\* C13: in every send request issued by sendMedia the media sub-object carries
\* exactly one of {id, link}: with a file path the upload comes first and its id is
\* embedded as {id} with no link; with a URL only the URL is embedded as {link} and no
\* upload is made; a filename is added only when the media type is document.
C13_MediaPayload ==
    (IsExec(last) /\ last.name = W("send_media")) =>
        \A i \in DOMAIN reqs :
            LET media == reqs[i].media
                options == last.params
            IN /\ reqs[i].path = "media" => (i = 1 /\ ~Falsy(P(options, "filePath")))
               /\ reqs[i].path = "messages" =>
                     /\ (media.id = Undefined) # (media.link = Undefined)
                     /\ ~Falsy(P(options, "filePath")) =>
                           /\ i = 2
                           /\ reqs[1].path = "media" /\ reqs[1].outcome = "ok"
                           /\ media.id = reqs[1].response.id
                           /\ media.link = Undefined
                     /\ Falsy(P(options, "filePath")) =>
                           /\ i = 1 /\ Len(reqs) = 1
                           /\ media.link = P(options, "url")
                           /\ media.id = Undefined
                     /\ media.filename # Undefined =>
                           /\ reqs[i].type = <<"document">>
                           /\ media.filename = P(options, "filename")

\* send_media given both a file path and a URL uploaded the file and posted a
\* document payload carrying the uploaded id, the filename and no link
C13_Witness ==
    /\ IsExec(last) /\ last.name = W("send_media")
    /\ ~Falsy(P(last.params, "url")) /\ ~Falsy(P(last.params, "filePath"))
    /\ Len(reqs) = 2
    /\ reqs[1].path = "media" /\ reqs[1].outcome = "ok"
    /\ reqs[2].path = "messages"
    /\ reqs[2].type = <<"document">>
    /\ reqs[2].media.id = Str(<<"media-1">>)
    /\ reqs[2].media.link = Undefined
    /\ reqs[2].media.filename = Str(<<"filename">>)

----------------------------------------------------------------------------
(* Phone-number normalization *)

\* the number the last lookup was given
LookedUp == Text(P(last.params, "phoneNumber"))

\* C14: normalization strips a leading '+' if present and otherwise strips every
\* non-digit character, and it is idempotent: normalizing the already-normalized
\* result returns it unchanged.
C14_NormalizationIdempotent ==
    LastWasLookup =>
        /\ (LookedUp # <<>> /\ Head(LookedUp) = "+") => last.result.id = Tail(LookedUp)
        /\ (LookedUp = <<>> \/ Head(LookedUp) # "+") =>
              /\ \A i \in DOMAIN last.result.id : last.result.id[i] \in Digits
              /\ SelectSeq(LookedUp, IsDigit) = last.result.id
        /\ formatPhoneNumber(last.result.id) = last.result.id

----------------------------------------------------------------------------
(* Requests per invocation *)

\* C15, as stated: every tool invocation issues at most one HTTP request, and a
\* request that fails is never re-sent.
C15_AtMostOneRequest ==
    IsExec(last) =>
        /\ Len(reqs) <= 1
        /\ \A i \in 1..(Len(reqs) - 1) : reqs[i].outcome = "ok"

\* C15, amended: every tool invocation issues at most one HTTP request, except
\* send_media given a file path, which issues the upload and then, once the upload has
\* succeeded, the send request; a request that fails is never re-sent.
C15_OneRequestOrUploadThenSend ==
    IsExec(last) =>
        /\ Len(reqs) <= 2
        /\ Len(reqs) = 2 =>
              /\ last.name = W("send_media")
              /\ ~Falsy(P(last.params, "filePath"))
              /\ reqs[1].path = "media" /\ reqs[1].outcome = "ok"
              /\ reqs[2].path = "messages"
        /\ \A i \in 1..(Len(reqs) - 1) : reqs[i].outcome = "ok"
        /\ (reqs # <<>> /\ LastRequest.outcome = "failed") =>
              (call.pc = "idle" /\ ~last.ok)

\* mark_as_read issued one request, it failed, and the invocation ended there
C15_Witness ==
    /\ Finished(last) /\ last.name = W("mark_as_read")
    /\ Len(reqs) = 1
    /\ reqs[1].outcome = "failed"
    /\ ~last.ok

\* a request of the execution failed
SomeRequestFailed == \E i \in DOMAIN reqs : reqs[i].outcome = "failed"

\* C16: a tool invocation returns a success result only if every HTTP request it
\* issued succeeded; if any request it issued fails, the upload of send_media
\* included, the invocation fails with an error and returns no result.
C16_FailurePropagates ==
    Finished(last) =>
        /\ last.ok => \A i \in DOMAIN reqs : reqs[i].outcome = "ok"
        /\ SomeRequestFailed =>
              /\ ~last.ok
              /\ last.result = NoResult
              /\ last.error.cls \in {"Error", "AxiosError"}
              /\ last.error.message # <<>>

\* the upload of send_media failed and the invocation failed without a result
C16_Witness ==
    /\ Finished(last) /\ last.name = W("send_media")
    /\ Len(reqs) = 1
    /\ reqs[1].path = "media" /\ reqs[1].outcome = "failed"
    /\ ~last.ok
    /\ last.result = NoResult
    /\ last.error.cls = "Error"

----------------------------------------------------------------------------
(* Business profile *)

\* the first profile record of a response body, the empty record when it has none
FirstProfile(resp) ==
    IF ~resp.dataNull /\ resp.hasList /\ resp.list # <<>>
    THEN Head(resp.list)
    ELSE Obj("{}")

\* C17: getBusinessProfile, when its HTTP request succeeds, returns the first profile
\* record of the vendor response, and an empty record whenever the response carries
\* no profile record (an empty record list or no record list at all).
C17_ProfileOrEmptyRecord ==
    (/\ Finished(last) /\ last.name = W("get_business_profile")
     /\ reqs # <<>> /\ LastRequest.outcome = "ok") =>
        /\ last.ok
        /\ last.result = ProfileResult(FirstProfile(LastRequest.response))

----------------------------------------------------------------------------
(* Configuration resolution *)

\* explicit value, else environment value, else default
Resolved(explicit, fromEnv, default) ==
    IF explicit # Undefined THEN explicit
    ELSE IF fromEnv # Undefined THEN fromEnv
         ELSE default

\* the configuration the stated resolution order gives
ExpectedConfig ==
    [apiToken |-> Resolved(whatsAppConfig.apiToken, env.WHATSAPP_API_TOKEN, Undefined),
     phoneNumberId |->
        Resolved(whatsAppConfig.phoneNumberId, env.WHATSAPP_PHONE_NUMBER_ID, Undefined),
     cacheContactSeconds |->
        Resolved(whatsAppConfig.cacheContactSeconds,
                 IF env.CACHE_CONTACT_SECONDS = Undefined THEN Undefined
                 ELSE ToNumber(env.CACHE_CONTACT_SECONDS),
                 Num(<<"3600">>))]

IsEmpty(x) == x \in {Undefined, Null, EmptyStr}

\* C18: configuration resolution gives every field the explicitly supplied value
\* whenever one is supplied (a cache TTL of 0 included), otherwise the environment
\* value, otherwise the hardcoded default; client construction fails if and only if
\* the resolved access token or the resolved phone-number id is empty.
C18_ExplicitThenEnvThenDefault ==
    [][PluginInit("init") =>
          /\ ~last'.ok <=>
                (IsEmpty(ExpectedConfig.apiToken) \/ IsEmpty(ExpectedConfig.phoneNumberId))
          /\ last'.ok => client'.config = ExpectedConfig]_vars

----------------------------------------------------------------------------
(* Tool map frame *)

\* the names of the tool map and the kind of tool bound to each
Bindings(m) == {<<m[i].name, m[i].kind>> : i \in DOMAIN m}

\* the step is an explicit registerTool or removeTool call
ExplicitMapCall ==
    \/ \E tool \in CustomTools : RegisterTool(tool)
    \/ \E name \in RemoveInputs : RemoveTool(name)

\* C19: after construction the names of the tool map and the tool bound to each
\* change only through registerTool and removeTool: init(), initializeAll(),
\* cleanupAll(), executeTool() and tool executions leave the tool map unchanged.
C19_ToolMapFrame ==
    [][~ExplicitMapCall => Bindings(tools') = Bindings(tools)]_vars

----------------------------------------------------------------------------
(* Contact cache growth *)

\* the step keeps the same live client
SameClient == client.live /\ client'.live /\ client'.gen = client.gen

\* the step is a lookup that finds the entry under key k no longer fresh
StaleLookupOf(k) ==
    \E phone \in PhoneInputs :
        /\ GetContactInfoStep(phone)
        /\ KeyOf(phone) = k
        /\ ~CacheHit(client.contactCache, k, now, client.config.cacheContactSeconds)

\* C20: over a client's lifetime the key set of the contact cache never shrinks: no
\* operation removes an entry, a stale entry is only overwritten in place by the next
\* lookup of the same key, and every entry under 'contact_<n>' holds the contact <n>.
C20_CacheOnlyGrows ==
    /\ [](\A k \in DOMAIN client.contactCache :
             k = <<"contact_">> \o client.contactCache[k].data)
    /\ [][SameClient =>
             /\ DOMAIN client.contactCache \subseteq DOMAIN client'.contactCache
             /\ \A k \in DOMAIN client.contactCache :
                   client'.contactCache[k] # client.contactCache[k] =>
                       /\ StaleLookupOf(k)
                       /\ client'.contactCache[k].timestamp = now
                       /\ client'.contactCache[k].data = client.contactCache[k].data]_vars

\* the cache holds two contacts, the entry for 155 rewritten after it went stale
\* while the older entry for '1 5' stayed
C20_Witness ==
    /\ client.live
    /\ DOMAIN client.contactCache =
          {KeyOf(<<"1", "5", "5">>), KeyOf(<<"+", "1", " ", "5">>)}
    /\ client.contactCache[KeyOf(<<"+", "1", " ", "5">>)].timestamp = 0
    /\ client.contactCache[KeyOf(<<"1", "5", "5">>)].timestamp = MsPerSecond
    /\ TtlOf(client) = MsPerSecond

----------------------------------------------------------------------------
(* Exposed tool list *)

\* getTools()
getTools(m) == MapValues(m)

\* C21: after any sequence of constructor, init, registerTool, removeTool and
\* cleanupAll calls the exposed list config.tools holds exactly the tools of the tool
\* map, the ones getTools() returns and getToolCount() counts.
C21_ExposedListMatchesMap ==
    /\ Range(configTools) = Range(getTools(tools))
    /\ Len(configTools) = getToolCount(tools)

----------------------------------------------------------------------------
(* Catalog dispatch *)

\* the nine tool names of the catalog
NineNames ==
    {W("send_message"), W("send_template"), W("send_media"), W("send_interactive"),
     W("send_location"), W("mark_as_read"), W("get_contact_info"),
     W("get_business_profile"), W("update_business_profile")}

\* the error of the default branch of the dispatch switch
IsUnknownMethod(e) == e.message # <<>> /\ Head(e.message) = "Unknown method: "

\* C22: immediately after construction the tool map holds exactly the nine catalog
\* names, and every catalog tool's execute dispatches to a handler: the 'Unknown
\* method' branch is unreachable for a tool built from the catalog.
C22_CatalogDispatches ==
    /\ last.op = "constructor" =>
          /\ {tools[i].name : i \in DOMAIN tools} = NineNames
          /\ getToolCount(tools) = Cardinality(NineNames)
          /\ \A i \in DOMAIN tools : tools[i].kind = "catalog"
    /\ \A i \in DOMAIN tools :
          tools[i].kind = "catalog" =>
              \A fileExists \in BOOLEAN :
                  ~IsUnknownMethod(ExecuteClosure(tools[i].name, FullParams(tools[i].name),
                                                  [client EXCEPT !.live = TRUE],
                                                  fileExists, now).error)
    /\ IsExec(last) => ~IsUnknownMethod(last.error)

\* the last catalog tool, update_business_profile, reached its client method and
\* returned { success: true }
C22_Witness ==
    /\ Finished(last) /\ last.name = W("update_business_profile")
    /\ Len(reqs) = 1
    /\ reqs[1].verb = "PATCH" /\ reqs[1].outcome = "ok"
    /\ last.ok
    /\ last.result = FlagResult(Bool(TRUE))

----------------------------------------------------------------------------
(* Executions interleaved with cleanupAll() and init() *)

\* the step completes the execution whose request was in flight
Completes == call.pc # "idle" /\ call'.pc = "idle"

\* C23: under any interleaving of tool executions with cleanupAll() and init(), an
\* execution that passed the client check invoked its client method on a non-null
\* client, and an execution whose request is in flight when cleanupAll() runs still
\* completes with that request's result.
C23_InFlightSurvivesCleanup ==
    /\ [](call.pc # "idle" => (call.gen # 0 /\ reqs # <<>>))
    /\ []((IsExec(last) /\ reqs # <<>>) => last.gen # 0)
    /\ [][Completes =>
             LET r == reqs'[Len(reqs')]
             IN /\ last'.gen = call.gen
                /\ last'.name = call.name
                /\ r.outcome = "ok" =>
                      /\ last'.ok
                      /\ call.name \in SendTools =>
                            last'.result = SendResult(FirstMessageId(r.response))
                      /\ call.name \in {W("mark_as_read"), W("update_business_profile")} =>
                            last'.result = FlagResult(Bool(TRUE))
                      /\ call.name = W("get_business_profile") =>
                            last'.result = ProfileResult(FirstProfile(r.response))
                /\ r.outcome = "failed" =>
                      /\ ~last'.ok
                      /\ last'.error = r.error]_vars

\* send_message was in flight when cleanupAll() ran and still returned its message id
C23_Witness ==
    /\ Finished(last) /\ last.name = W("send_message")
    /\ ~client.live
    /\ last.gen # 0
    /\ Len(reqs) = 1 /\ reqs[1].outcome = "ok"
    /\ last.ok
    /\ last.result = SendResult(Str(<<"wamid.A">>))

----------------------------------------------------------------------------
(* Validation of supplied values *)

\* every parameter the manifest marks required is supplied
AllRequiredSupplied(name, params) == RequiredOf(name) \subseteq DOMAIN params

\* a required parameter is absent or holds a value JavaScript treats as false, the
\* coordinates of send_location counting only when absent, or send_media has no source
MissingOrFalsy(name, params) ==
    \/ \E k \in RequiredOf(name) :
          IF k \in {"latitude", "longitude"}
          THEN k \notin DOMAIN params
          ELSE k \notin DOMAIN params \/ Falsy(params[k])
    \/ name = W("send_media") /\ NoMediaSource(params)

\* C24, as stated: a tool invocation that supplies every parameter its manifest marks
\* required, with any value, never fails with a 'Missing required parameter(s)' error.
C24_SuppliedNeverMissing ==
    (IsExec(last) /\ AllRequiredSupplied(last.name, last.params)) =>
        ~IsValidationError(last.error)

\* C24, amended: on an initialized plugin an invocation fails with a 'Missing required
\* parameter(s)' error exactly when a required parameter is absent or falsy (for the
\* coordinates of send_location: absent), or when send_media is given neither a URL
\* nor a file path.
C24_RejectedWhenAbsentOrFalsy ==
    (IsExec(last) /\ last.gen # 0) =>
        (IsValidationError(last.error) <=> MissingOrFalsy(last.name, last.params))

\* send_message given an empty message text was rejected as missing a parameter
C24_Witness ==
    /\ IsExec(last) /\ last.gen # 0
    /\ last.name = W("send_message")
    /\ AllRequiredSupplied(last.name, last.params)
    /\ last.params["message"] = EmptyStr
    /\ IsValidationError(last.error)
    /\ reqs = <<>>

=============================================================================
